---- MODULE Spec2Model ----
(***************************************************************************)
(* Model of the tarot tabletop (touch-enabled App component,               *)
(* src/unnamed/part_000 lines 1-723, with src/src/services/cardService.ts).*)
(* State = the component's useState/useRef cells, one action per event     *)
(* handler, timer callback or effect.                                      *)
(***************************************************************************)
EXTENDS Integers, Sequences, FiniteSets, TLC

(***************************************************************************)
(* JavaScript numbers are modelled as exact fractions <<n, d>> with d > 0  *)
(* in lowest terms (no floating-point rounding).                           *)
(***************************************************************************)
Abs(n) == IF n < 0 THEN -n ELSE n

RECURSIVE GCD(_, _)
GCD(a, b) == IF b = 0 THEN a ELSE GCD(b, a % b)

Q(n, d) ==
  LET s == IF d < 0 THEN -1 ELSE 1
      g == GCD(Abs(n), Abs(d))
  IN  <<(s * n) \div g, (s * d) \div g>>

QInt(n) == <<n, 1>>

\* the operands are in lowest terms; common factors are cancelled before multiplying
QAdd(a, b) ==
  LET g == GCD(a[2], b[2])
  IN  Q(a[1] * (b[2] \div g) + b[1] * (a[2] \div g), (a[2] \div g) * b[2])

QNeg(a) == <<-a[1], a[2]>>
QSub(a, b) == QAdd(a, QNeg(b))

QMul(a, b) ==
  LET g1 == GCD(Abs(a[1]), b[2])
      g2 == GCD(Abs(b[1]), a[2])
      h1 == IF g1 = 0 THEN 1 ELSE g1
      h2 == IF g2 = 0 THEN 1 ELSE g2
  IN  Q((a[1] \div h1) * (b[1] \div h2), (a[2] \div h2) * (b[2] \div h1))

QDiv(a, b) == QMul(a, IF b[1] < 0 THEN <<-b[2], -b[1]>> ELSE <<b[2], b[1]>>)
QLt(a, b) ==
  LET g == GCD(a[2], b[2])
  IN  a[1] * (b[2] \div g) < b[1] * (a[2] \div g)

QLe(a, b) == ~QLt(b, a)
QMin(a, b) == IF QLt(b, a) THEN b ELSE a
QMax(a, b) == IF QLt(a, b) THEN b ELSE a
QAbs(a) == <<Abs(a[1]), a[2]>>

Pt(x, y) == [x |-> x, y |-> y]
PtInt(x, y) == [x |-> QInt(x), y |-> QInt(y)]

(***************************************************************************)
(* Bounds of the model.                                                    *)
(***************************************************************************)
NumMajor == 1
NumMinor == 1
MaxTouches == 2
MaxZ == 2
MaxViewOps == 2
MaxHalfTurns == 3
MaxTimers == 2          \* pending setTimeout callbacks
MaxShuffleLen == 4      \* length of the arrays given to shuffleDeck on its own

\* the size of the browser window (window.innerWidth, window.innerHeight)
Window == [innerWidth |-> 800, innerHeight |-> 600]
InnerWidth == Window.innerWidth
InnerHeight == Window.innerHeight

(***************************************************************************)
(* Program constants.                                                      *)
(***************************************************************************)
InitialZIndex == 10
ReturnZIndex == 9999
TapThresholdPx == 15
DesktopMinWidth == 640
CardWidthDesktop == 176
CardWidthMobile == 128
DeckMargin == 32
ZoomMin == Q(1, 10)
ZoomMax == QInt(5)
WheelSensitivity == Q(1, 1000)
PinchSensitivity == Q(5, 1000)
ZoomStepDelta == Q(2, 10)

(***************************************************************************)
(* Card catalogue (cardService.ts).                                        *)
(***************************************************************************)
DeckStyles == {"noblet", "cbd"}
FilterTypes == {"ALL", "MAJOR", "MINOR"}

MajorIds == [i \in 1..NumMajor |-> <<"major", i - 1>>]
MinorIds == [i \in 1..NumMinor |-> <<"minor", i>>]
AllIds == {MajorIds[i] : i \in 1..NumMajor} \cup {MinorIds[i] : i \in 1..NumMinor}
UndefinedId == <<"undefined", 0>>

\* getCardAssetUrl: the URLs are a function of the card's file name and the style;
\* the model keeps the style the URLs were resolved for.
getCardAssetUrl(fileName, deckStyle) == deckStyle

updateCardAssets(card, style) ==
  [card EXCEPT !.img = getCardAssetUrl(card.id, style)]

createDeck(deckStyle) ==
  [i \in 1..(NumMajor + NumMinor) |->
     IF i <= NumMajor
       THEN [id |-> MajorIds[i], arcana |-> "Major",
             img |-> getCardAssetUrl(MajorIds[i], deckStyle)]
       ELSE [id |-> MinorIds[i - NumMajor], arcana |-> "Minor",
             img |-> getCardAssetUrl(MinorIds[i - NumMajor], deckStyle)]]

\* getDeckRatio: width / height of a card of the style.
getDeckRatio(style) == IF style = "noblet" THEN Q(354, 566) ELSE Q(300, 525)

\* an exchange that writes one of the two places only
SwapOverwriting(s, i, j) == [s EXCEPT ![i] = s[j]]

\* shuffleDeck: Fisher-Yates on a copy; every outcome of Math.random is possible.
Swap(s, i, j) == [s EXCEPT ![i] = s[j], ![j] = s[i]]

RECURSIVE ShuffleFrom(_, _)
ShuffleFrom(s, i) ==
  IF i <= 1 THEN {s}
  ELSE UNION {ShuffleFrom(Swap(s, i, j), i - 1) : j \in 1..i}

shuffleDeck(array) == ShuffleFrom(array, Len(array))

\* a call of shuffleDeck as its caller sees it: the argument after the call and
\* the returned array.  newArray = [...array] is a copy, and the loop writes
\* newArray only (cardService.ts lines 199-207)
shuffleDeckCall(array) ==
  {[array |-> array, newArray |-> r] : r \in ShuffleFrom(array, Len(array))}

SeqFilter(s, Test(_)) == SelectSeq(s, Test)
Range(s) == {s[i] : i \in 1..Len(s)}


(***************************************************************************)
(* State (part_000 lines 29-75), the input devices, and pending timers.    *)
(***************************************************************************)
VARIABLES
  deck, reserveCards, placedCards, zIndexCounter, currentDeckStyle, activeFilter,
  isReturningCards, isShufflingDeck,
  pan, zoom, isPanning, isSpacePressed,
  panRef, zoomRef, lastPinchDistRef, touchRecent,
  isDragging, dragSource, draggedCardId,
  isRotating, rotatingCardId, rotationCenterRef, lastMouseAngleRef,
  dragOffset, ghostPosition, dragStartPos, panStartRef,
  timers,      \* pending setTimeout callbacks with the values their closures captured
  touches,     \* positions of the active touch points, in e.touches order
  buttons,     \* mouse buttons currently held
  lastEvent,   \* the event handled by the last step
  viewOps      \* number of steps so far that changed pan or zoom

vars ==
  <<deck, reserveCards, placedCards, zIndexCounter, currentDeckStyle, activeFilter,
    isReturningCards, isShufflingDeck, pan, zoom, isPanning, isSpacePressed,
    panRef, zoomRef, lastPinchDistRef, touchRecent, isDragging, dragSource,
    draggedCardId, isRotating, rotatingCardId, rotationCenterRef,
    lastMouseAngleRef, dragOffset, ghostPosition, dragStartPos, panStartRef,
    timers, touches, buttons, lastEvent, viewOps>>

\* The component state as one record: the handlers below are functions on it.
S ==
  [deck |-> deck, reserveCards |-> reserveCards, placedCards |-> placedCards,
   zIndexCounter |-> zIndexCounter, currentDeckStyle |-> currentDeckStyle,
   activeFilter |-> activeFilter, isReturningCards |-> isReturningCards,
   isShufflingDeck |-> isShufflingDeck, pan |-> pan, zoom |-> zoom,
   isPanning |-> isPanning, isSpacePressed |-> isSpacePressed,
   panRef |-> panRef, zoomRef |-> zoomRef, lastPinchDistRef |-> lastPinchDistRef,
   touchRecent |-> touchRecent, isDragging |-> isDragging,
   dragSource |-> dragSource, draggedCardId |-> draggedCardId,
   isRotating |-> isRotating, rotatingCardId |-> rotatingCardId,
   rotationCenterRef |-> rotationCenterRef,
   lastMouseAngleRef |-> lastMouseAngleRef, dragOffset |-> dragOffset,
   ghostPosition |-> ghostPosition, dragStartPos |-> dragStartPos,
   panStartRef |-> panStartRef, timers |-> timers]

NullId == 0          \* null in draggedCardId / rotatingCardId
NullDist == <<>>     \* null in lastPinchDistRef
InstanceIds == {1, 2}   \* outcomes of the random instanceId

(***************************************************************************)
(* Pure helpers.                                                           *)
(***************************************************************************)
\* getCurrentCardDimensions (lines 80-85)
getCurrentCardDimensions(s) ==
  LET width == IF InnerWidth >= DesktopMinWidth THEN CardWidthDesktop ELSE CardWidthMobile
  IN  [width |-> QInt(width),
       height |-> QDiv(QInt(width), getDeckRatio(s.currentDeckStyle))]

Half(q) == QDiv(q, QInt(2))

\* screenToWorld (lines 149-154), on an explicit pan and zoom
ScreenToWorldAt(p, z, sx, sy) ==
  Pt(QDiv(QSub(sx, p.x), z), QDiv(QSub(sy, p.y), z))

screenToWorld(s, pos) == ScreenToWorldAt(s.pan, s.zoom, pos.x, pos.y)

\* world -> screen without the scaling by zoom
WorldToScreenUnscaled(p, z, wx, wy) == Pt(QAdd(wx, p.x), QAdd(wy, p.y))

\* world -> screen as written in handleStartRotate (lines 347-348)
WorldToScreenAt(p, z, wx, wy) ==
  Pt(QAdd(QMul(wx, z), p.x), QAdd(QMul(wy, z), p.y))

\* the zoom taken as requested, without the clamp
ClampZoomOff(z) == z

\* Math.min(Math.max(0.1, z), 5)
ClampZoom(z) == QMin(QMax(ZoomMin, z), ZoomMax)

\* Math.atan2(dy, dx) in whole degrees: exact on the directions with slope
\* 0, 1 and infinity; every other direction is given as the nearest of the
\* slopes 1/2 and 2 (27 and 63 degrees from the x axis).
Atan2Deg(dy, dx) ==
  LET ax == QAbs(dx)
      ay == QAbs(dy)
      a  == IF ay = ax THEN 45 ELSE IF QLt(ay, ax) THEN 27 ELSE 63
      zero == QInt(0)
  IN  IF dy = zero THEN (IF QLt(dx, zero) THEN 180 ELSE 0)
      ELSE IF dx = zero THEN (IF QLt(zero, dy) THEN 90 ELSE -90)
      ELSE IF QLt(zero, dx) THEN (IF QLt(zero, dy) THEN a ELSE -a)
      ELSE (IF QLt(zero, dy) THEN 180 - a ELSE a - 180)

\* calculateAngle (lines 156-160)
calculateAngle(center, mouse) ==
  Atan2Deg(QSub(mouse.y, center.y), QSub(mouse.x, center.x))

\* Math.sqrt on a non-negative integer: exact on perfect squares, else rounded down
RECURSIVE ISqrtIn(_, _, _)
ISqrtIn(n, lo, hi) ==
  IF lo >= hi THEN lo
  ELSE LET mid == (lo + hi + 1) \div 2
       IN  IF mid * mid <= n THEN ISqrtIn(n, mid, hi) ELSE ISqrtIn(n, lo, mid - 1)

Sqrt(q) ==
  LET n == q[1] \div q[2]
  IN  QInt(ISqrtIn(n, 0, IF n > 46340 THEN 46340 ELSE n))

Dist(a, b) ==
  LET dx == QSub(a.x, b.x)
      dy == QSub(a.y, b.y)
  IN  Sqrt(QAdd(QMul(dx, dx), QMul(dy, dy)))

\* getPinchDistance (lines 21-26)
getPinchDistance(ts) == IF Len(ts) < 2 THEN NullDist ELSE Dist(ts[1], ts[2])

\* JavaScript truthiness of a number-or-null
Truthy(d) == d # NullDist /\ d # QInt(0)


(***************************************************************************)
(* Pointer-down handlers.  An event e is                                   *)
(*   [isTouch, button, pos, nTouches, changed]                             *)
(* pos = getClientPos(e): touches[0] of a touch event that has touches,    *)
(* clientX/Y of a mouse event; changed = changedTouches[0] or clientX/Y.   *)
(* A start handler returns [s, bubble]: bubble says the event goes on to   *)
(* the container's handler (the handler returned before stopPropagation).  *)
(***************************************************************************)
\* Bumped with the card raised one past the new counter value
BumpedPast(cards, instanceId, newZ) ==
  [i \in 1..Len(cards) |->
     IF cards[i].instanceId = instanceId
       THEN [cards[i] EXCEPT !.zIndex = newZ + 1] ELSE cards[i]]

Bumped(cards, instanceId, newZ) ==
  [i \in 1..Len(cards) |->
     IF cards[i].instanceId = instanceId
       THEN [cards[i] EXCEPT !.zIndex = newZ] ELSE cards[i]]

\* handleStartDeck (lines 273-294)
handleStartDeck(s, e) ==
  IF Len(s.deck) = 0 \/ s.isShufflingDeck \/ s.isReturningCards
    THEN [s |-> s, bubble |-> TRUE]
  ELSE IF ~e.isTouch /\ s.touchRecent
    THEN [s |-> s, bubble |-> TRUE]
  ELSE IF ~e.isTouch /\ e.button # 0
    THEN [s |-> s, bubble |-> TRUE]
  ELSE
    LET dims == getCurrentCardDimensions(s)
    IN  [s |-> [s EXCEPT !.touchRecent = IF e.isTouch THEN TRUE ELSE @,
                         !.isDragging = TRUE,
                         !.dragSource = "DECK",
                         !.ghostPosition = e.pos,
                         !.dragStartPos = e.pos,
                         !.dragOffset = Pt(Half(dims.width), Half(dims.height))],
         bubble |-> FALSE]

\* a card press that does not look at the space modifier
handleStartTableCardIgnoringSpace(s, e, card) ==
  LET s1 == [s EXCEPT !.touchRecent = IF e.isTouch THEN TRUE ELSE @]
  IN
  IF ~e.isTouch /\ s.touchRecent
    THEN [s |-> s, bubble |-> TRUE]
  ELSE IF ~e.isTouch /\ e.button # 0
    THEN [s |-> s, bubble |-> TRUE]
  ELSE IF s.isReturningCards
    THEN [s |-> s1, bubble |-> TRUE]
  ELSE
    LET mouseWorld == screenToWorld(s, e.pos)
        newZ == s.zIndexCounter + 1
    IN  [s |-> [s1 EXCEPT !.isDragging = TRUE,
                          !.dragSource = "TABLE",
                          !.draggedCardId = card.instanceId,
                          !.dragStartPos = e.pos,
                          !.dragOffset = Pt(QSub(mouseWorld.x, card.x),
                                            QSub(mouseWorld.y, card.y)),
                          !.zIndexCounter = newZ,
                          !.placedCards = Bumped(s.placedCards, card.instanceId, newZ)],
         bubble |-> FALSE]

\* handleStartTableCard (lines 296-325)
handleStartTableCard(s, e, card) ==
  LET s1 == [s EXCEPT !.touchRecent = IF e.isTouch THEN TRUE ELSE @]
  IN
  IF ~e.isTouch /\ s.touchRecent
    THEN [s |-> s, bubble |-> TRUE]
  ELSE IF ~e.isTouch /\ e.button # 0
    THEN [s |-> s, bubble |-> TRUE]
  ELSE IF s.isSpacePressed \/ s.isReturningCards
    THEN [s |-> s1, bubble |-> TRUE]
  ELSE
    LET mouseWorld == screenToWorld(s, e.pos)
        newZ == s.zIndexCounter + 1
    IN  [s |-> [s1 EXCEPT !.isDragging = TRUE,
                          !.dragSource = "TABLE",
                          !.draggedCardId = card.instanceId,
                          !.dragStartPos = e.pos,
                          !.dragOffset = Pt(QSub(mouseWorld.x, card.x),
                                            QSub(mouseWorld.y, card.y)),
                          !.zIndexCounter = newZ,
                          !.placedCards = Bumped(s.placedCards, card.instanceId, newZ)],
         bubble |-> FALSE]

\* handleStartRotate (lines 327-356); the rotate button stops propagation itself
\* (CardComponent.tsx lines 66-75)
handleStartRotate(s, e, card) ==
  IF ~e.isTouch /\ s.touchRecent THEN s
  ELSE
    LET newZ == s.zIndexCounter + 1
        cardDims == getCurrentCardDimensions(s)
        screen == WorldToScreenAt(s.pan, s.zoom, card.x, card.y)
        center == Pt(QAdd(screen.x, Half(QMul(cardDims.width, s.zoom))),
                     QAdd(screen.y, Half(QMul(cardDims.height, s.zoom))))
    IN  [s EXCEPT !.touchRecent = IF e.isTouch THEN TRUE ELSE @,
                  !.zIndexCounter = newZ,
                  !.placedCards = Bumped(s.placedCards, card.instanceId, newZ),
                  !.isRotating = TRUE,
                  !.rotatingCardId = card.instanceId,
                  !.rotationCenterRef = center,
                  !.lastMouseAngleRef = calculateAngle(center, e.pos)]

\* handleStartBackground (lines 358-374)
handleStartBackground(s, e) ==
  IF ~e.isTouch /\ s.touchRecent THEN s
  ELSE
    LET s1 == [s EXCEPT !.touchRecent = IF e.isTouch THEN TRUE ELSE @]
        isMouseLeft == ~e.isTouch /\ e.button = 0
    IN  IF e.isTouch \/ s.isSpacePressed \/ isMouseLeft
          THEN [s1 EXCEPT !.isPanning = TRUE, !.panStartRef = e.pos]
          ELSE s1

\* the container's onMouseDown / onTouchStart (lines 573-581)
containerStart(s, e, ts) ==
  IF e.isTouch /\ e.nTouches = 2
    THEN [s EXCEPT !.lastPinchDistRef = getPinchDistance(ts)]
    ELSE handleStartBackground(s, e)

\* What a pointer-down on a target runs, with React's bubbling to the container.
\* Targets: <<"deck">>, <<"card", i>>, <<"rotate", i>>, <<"background">>.
Targets(s) ==
  {<<"background">>}
  \cup (IF Len(s.deck) > 0 THEN {<<"deck">>} ELSE {})
  \cup {<<"card", i>> : i \in 1..Len(s.placedCards)}
  \* the rotate button is not rendered on the card being dragged (CardComponent line 64)
  \cup {<<"rotate", i>> : i \in {j \in 1..Len(s.placedCards) :
          ~(s.isDragging /\ s.draggedCardId = s.placedCards[j].instanceId)}}

pointerDown(s, target, e, ts) ==
  IF target[1] = "deck" THEN
    LET r == handleStartDeck(s, e)
    IN  IF r.bubble THEN containerStart(r.s, e, ts) ELSE r.s
  ELSE IF target[1] = "card" THEN
    LET r == handleStartTableCard(s, e, s.placedCards[target[2]])
    IN  IF r.bubble THEN containerStart(r.s, e, ts) ELSE r.s
  ELSE IF target[1] = "rotate" THEN
    handleStartRotate(s, e, s.placedCards[target[2]])
  ELSE containerStart(s, e, ts)


(***************************************************************************)
(* Zooming about a screen anchor.                                          *)
(***************************************************************************)
\* newPan = anchor - ((anchor - pan) / zoom) * newZoom  (lines 252-260, 389-395, 559-562)
panKeeping(anchor, p, z, newZoom) ==
  LET world == ScreenToWorldAt(p, z, anchor.x, anchor.y)
  IN  Pt(QSub(anchor.x, QMul(world.x, newZoom)),
         QSub(anchor.y, QMul(world.y, newZoom)))

ViewportCenter == Pt(Half(QInt(InnerWidth)), Half(QInt(InnerHeight)))

\* handleWheel (lines 248-264): reads the refs, writes the state
handleWheel(s, deltaY, client) ==
  LET currentZoom == s.zoomRef
      currentPan == s.panRef
      delta == QNeg(deltaY)
      newZoom == ClampZoom(QAdd(currentZoom,
                                QMul(QMul(delta, WheelSensitivity), currentZoom)))
  IN  IF QLt(QAbs(QSub(newZoom, currentZoom)), Q(1, 10000)) THEN s
      ELSE [s EXCEPT !.zoom = newZoom,
                     !.pan = panKeeping(client, currentPan, currentZoom, newZoom)]

\* zoomStep (lines 552-565): reads the rendered state
zoomStep(s, delta) ==
  LET currentZoom == s.zoom
      newZoom == ClampZoom(QAdd(currentZoom, delta))
  IN  IF newZoom = currentZoom THEN s
      ELSE [s EXCEPT !.zoom = newZoom,
                     !.pan = panKeeping(ViewportCenter, s.pan, currentZoom, newZoom)]

\* the reset-zoom button: setZoom(1) (line 627)
zoomReset(s) == [s EXCEPT !.zoom = QInt(1)]

\* the pinch branch of handleMove (lines 379-402), ts = e.touches
pinchMove(s, ts) ==
  LET dist == getPinchDistance(ts)
      s1 ==
        IF Truthy(dist) /\ Truthy(s.lastPinchDistRef)
          THEN LET delta == QSub(dist, s.lastPinchDistRef)
                   newZoom == ClampZoom(QAdd(s.zoomRef, QMul(delta, PinchSensitivity)))
               IN  [s EXCEPT !.zoom = newZoom,
                             !.pan = panKeeping(ViewportCenter, s.panRef, s.zoomRef, newZoom)]
          ELSE s
  IN  [s1 EXCEPT !.lastPinchDistRef = dist]

(***************************************************************************)
(* Move and end handlers.                                                  *)
(***************************************************************************)
\* the raw difference of the two angles, not normalised
normalizeDeltaOff(d) == d

\* the shortest-path normalisation of the rotation delta (lines 425-427)
normalizeDelta(d) ==
  LET d1 == IF d > 180 THEN d - 360 ELSE d
  IN  IF d1 < -180 THEN d1 + 360 ELSE d1

MapCards(cards, instanceId, F(_)) ==
  [i \in 1..Len(cards) |->
     IF cards[i].instanceId = instanceId THEN F(cards[i]) ELSE cards[i]]

\* a rotation step whose result is wrapped into [-180, 180)
rotateMoveWrapped(s, currentAngle) ==
  LET deltaAngle == normalizeDelta(currentAngle - s.lastMouseAngleRef)
      Turn(c) == [c EXCEPT !.rotation = ((c.rotation + deltaAngle + 180) % 360) - 180]
  IN  [s EXCEPT !.placedCards = MapCards(s.placedCards, s.rotatingCardId, Turn),
                !.lastMouseAngleRef = currentAngle]

\* the rotation branch of handleMove (lines 416-438) for a pointer seen from
\* the pivot at currentAngle
rotateMove(s, currentAngle) ==
  LET deltaAngle == normalizeDelta(currentAngle - s.lastMouseAngleRef)
      Turn(c) == [c EXCEPT !.rotation = c.rotation + deltaAngle]
  IN  [s EXCEPT !.placedCards = MapCards(s.placedCards, s.rotatingCardId, Turn),
                !.lastMouseAngleRef = currentAngle]

\* a pan step scaled by the zoom, as a world-space translation would be
panMoveScaled(s, e) ==
  [s EXCEPT !.pan = Pt(QAdd(s.pan.x, QDiv(QSub(e.pos.x, s.panStartRef.x), s.zoom)),
                       QAdd(s.pan.y, QDiv(QSub(e.pos.y, s.panStartRef.y), s.zoom))),
            !.panStartRef = e.pos]

\* the panning branch of handleMove (lines 406-414)
panMove(s, e) ==
  [s EXCEPT !.pan = Pt(QAdd(s.pan.x, QSub(e.pos.x, s.panStartRef.x)),
                       QAdd(s.pan.y, QSub(e.pos.y, s.panStartRef.y))),
            !.panStartRef = e.pos]

\* a drag step converted with the pan and zoom kept in the refs
dragMoveFromRefs(s, e) ==
  LET world == ScreenToWorldAt(s.panRef, s.zoomRef, e.pos.x, e.pos.y)
      MoveTo(c) == [c EXCEPT !.x = QSub(world.x, s.dragOffset.x),
                             !.y = QSub(world.y, s.dragOffset.y)]
  IN  [s EXCEPT !.placedCards = MapCards(s.placedCards, s.draggedCardId, MoveTo)]

\* a drag step that also moves the ghost preview, as a drag from the pile does
dragMoveWithGhost(s, e) ==
  LET world == ScreenToWorldAt(s.pan, s.zoom, e.pos.x, e.pos.y)
      MoveTo(c) == [c EXCEPT !.x = QSub(world.x, s.dragOffset.x),
                             !.y = QSub(world.y, s.dragOffset.y)]
  IN  [s EXCEPT !.placedCards = MapCards(s.placedCards, s.draggedCardId, MoveTo),
                !.ghostPosition = e.pos]

\* the placed-card case of the dragging branch of handleMove (lines 443-459)
dragMove(s, e) ==
  LET world == ScreenToWorldAt(s.pan, s.zoom, e.pos.x, e.pos.y)
      MoveTo(c) == [c EXCEPT !.x = QSub(world.x, s.dragOffset.x),
                             !.y = QSub(world.y, s.dragOffset.y)]
  IN  [s EXCEPT !.placedCards = MapCards(s.placedCards, s.draggedCardId, MoveTo)]

\* handleMove (lines 377-460), ts = e.touches
handleMove(s, e, ts) ==
  IF e.isTouch /\ e.nTouches = 2 THEN pinchMove(s, ts)
  ELSE IF s.isPanning THEN panMove(s, e)
  ELSE IF s.isRotating /\ s.rotatingCardId # NullId THEN
    rotateMove(s, calculateAngle(s.rotationCenterRef, e.pos))
  ELSE IF ~s.isDragging THEN s
  ELSE IF s.dragSource = "DECK" THEN [s EXCEPT !.ghostPosition = e.pos]
  ELSE IF s.dragSource = "TABLE" /\ s.draggedCardId # NullId THEN dragMove(s, e)
  ELSE s

\* a flip that also raises the card to the top of the stack
handleFlipToTop(cards, instanceId) ==
  LET Flip(c) == [c EXCEPT !.isFlipped = ~c.isFlipped, !.zIndex = ReturnZIndex]
  IN  MapCards(cards, instanceId, Flip)

\* handleFlip (lines 546-550)
handleFlip(cards, instanceId) ==
  LET Flip(c) == [c EXCEPT !.isFlipped = ~c.isFlipped]
  IN  MapCards(cards, instanceId, Flip)

\* deck[0] and { ...deck[0] } (lines 489, 499): of an empty pile it is undefined,
\* and spreading undefined gives a card without id, arcana or images
FrontCard(d) ==
  IF Len(d) > 0 THEN d[1]
  ELSE [id |-> UndefinedId, arcana |-> "undefined", img |-> "undefined"]

SliceFrom1(d) == IF Len(d) > 0 THEN Tail(d) ELSE d

\* a new placed card put at the screen position, not converted to world coordinates
newPlacedCardOnScreen(s, pos, instanceId) ==
  LET newCardData == FrontCard(s.deck)
      cardDims == getCurrentCardDimensions(s)
  IN  [id |-> newCardData.id, arcana |-> newCardData.arcana, img |-> newCardData.img,
       instanceId |-> instanceId,
       x |-> QSub(pos.x, Half(cardDims.width)),
       y |-> QSub(pos.y, Half(cardDims.height)),
       isFlipped |-> FALSE,
       zIndex |-> s.zIndexCounter + 1,
       rotation |-> 0]

\* the new placed card (lines 498-506)
newPlacedCard(s, pos, instanceId) ==
  LET newCardData == FrontCard(s.deck)
      dropWorld == screenToWorld(s, pos)
      cardDims == getCurrentCardDimensions(s)
  IN  [id |-> newCardData.id, arcana |-> newCardData.arcana, img |-> newCardData.img,
       instanceId |-> instanceId,
       x |-> QSub(dropWorld.x, Half(cardDims.width)),
       y |-> QSub(dropWorld.y, Half(cardDims.height)),
       isFlipped |-> FALSE,
       zIndex |-> s.zIndexCounter + 1,
       rotation |-> 0]

\* the tap test of the TABLE branch (lines 513-518)
isTap(s, pos) == QLt(Dist(pos, s.dragStartPos), QInt(TapThresholdPx))

\* handleEnd (lines 463-526); instanceId is the outcome of Math.random
handleEnd(s, e, instanceId) ==
  LET s0 == IF e.isTouch /\ e.nTouches < 2
              THEN [s EXCEPT !.lastPinchDistRef = NullDist] ELSE s
      s1 == IF s.isPanning THEN [s0 EXCEPT !.isPanning = FALSE] ELSE s0
      pos == e.changed
  IN
  IF s.isRotating THEN [s1 EXCEPT !.isRotating = FALSE, !.rotatingCardId = NullId]
  ELSE IF ~s.isDragging THEN s1
  ELSE
    LET s2 ==
          IF s.dragSource = "DECK" THEN
            [s1 EXCEPT !.zIndexCounter = @ + 1,
                       !.placedCards = Append(@, newPlacedCard(s, pos, instanceId)),
                       !.deck = SliceFrom1(s.deck)]
          ELSE IF s.dragSource = "TABLE" /\ s.draggedCardId # NullId THEN
            IF isTap(s, pos)
              THEN [s1 EXCEPT !.placedCards = handleFlip(@, s.draggedCardId)]
              ELSE s1
          ELSE s1
    IN  [s2 EXCEPT !.isDragging = FALSE, !.dragSource = "null",
                   !.draggedCardId = NullId]

\* handleKeyDown / handleKeyUp for the space bar (lines 230-238)
handleKeyDown(s) == [s EXCEPT !.isSpacePressed = TRUE]
handleKeyUp(s) == [s EXCEPT !.isSpacePressed = FALSE, !.isPanning = FALSE]


(***************************************************************************)
(* Table model operations.                                                 *)
(***************************************************************************)
IsMajor(c) == c.arcana = "Major"
IsMinor(c) == c.arcana = "Minor"
NotMajor(c) == c.arcana # "Major"
NotMinor(c) == c.arcana # "Minor"

\* a pile that keeps every card whatever the filter
FilterDeckKeepingAll(type, cards) == cards

\* the split of a collection by a filter (lines 133-142 and 209-217)
FilterDeck(type, all) ==
  IF type = "ALL" THEN all
  ELSE IF type = "MAJOR" THEN SelectSeq(all, IsMajor)
  ELSE SelectSeq(all, IsMinor)

\* a reserve that takes the whole collection
FilterReserveKeepingAll(type, all) == all

FilterReserve(type, all) ==
  IF type = "ALL" THEN <<>>
  ELSE IF type = "MAJOR" THEN SelectSeq(all, NotMajor)
  ELSE SelectSeq(all, NotMinor)

\* a filter change without the animation guard
handleFilterChangeUnguarded(s, type) ==
  LET allAvailable == s.deck \o s.reserveCards
  IN  [s EXCEPT !.deck = FilterDeck(type, allAvailable),
                !.reserveCards = FilterReserve(type, allAvailable),
                !.activeFilter = type]

\* a filter change that takes the reserve before the pile
handleFilterChangeReserveFirst(s, type) ==
  IF s.isReturningCards \/ s.isShufflingDeck THEN s
  ELSE
    LET allAvailable == s.reserveCards \o s.deck
    IN  [s EXCEPT !.deck = FilterDeck(type, allAvailable),
                  !.reserveCards = FilterReserve(type, allAvailable),
                  !.activeFilter = type]

\* handleFilterChange (lines 127-146)
handleFilterChange(s, type) ==
  IF s.isReturningCards \/ s.isShufflingDeck THEN s
  ELSE
    LET allAvailable == s.deck \o s.reserveCards
    IN  [s EXCEPT !.deck = FilterDeck(type, allAvailable),
                  !.reserveCards = FilterReserve(type, allAvailable),
                  !.activeFilter = type]

\* a style change that deals a fresh deck of the new style
handleStyleChangeRedeal(s, newStyle) ==
  [s EXCEPT !.currentDeckStyle = newStyle,
            !.deck = createDeck(newStyle),
            !.reserveCards = <<>>,
            !.placedCards = <<>>]

\* handleStyleChange (lines 119-125)
handleStyleChange(s, newStyle) ==
  LET Reskin(cards) == [i \in 1..Len(cards) |-> updateCardAssets(cards[i], newStyle)]
  IN  [s EXCEPT !.currentDeckStyle = newStyle,
                !.deck = Reskin(@),
                !.reserveCards = Reskin(@),
                !.placedCards = Reskin(@)]

ShuffleEndTimer ==
  [kind |-> "shuffleEnd", deck |-> <<>>, reserveCards |-> <<>>,
   placedCards |-> <<>>, activeFilter |-> "ALL"]

\* an in-place shuffle that takes the reserve back into the pile
shuffleInPlaceMerging(s, shuffledDeck, shuffledReserve) ==
  [s EXCEPT !.isShufflingDeck = TRUE,
            !.deck = shuffledDeck \o shuffledReserve,
            !.reserveCards = <<>>,
            !.timers = Append(@, ShuffleEndTimer)]

\* the empty-table branch of handleShuffleAndReset (lines 163-169)
shuffleInPlace(s, shuffledDeck, shuffledReserve) ==
  [s EXCEPT !.isShufflingDeck = TRUE,
            !.deck = shuffledDeck,
            !.reserveCards = shuffledReserve,
            !.timers = Append(@, ShuffleEndTimer)]

\* handleShuffleAndReset up to its setTimeout (lines 162-189); shuffledDeck and
\* shuffledReserve are the outcomes of the two shuffleDeck calls of the
\* empty-table branch.  The settle callback closes over the rendered
\* placedCards, deck, reserveCards and activeFilter.
handleShuffleAndReset(s, shuffledDeck, shuffledReserve) ==
  IF Len(s.placedCards) = 0 THEN shuffleInPlace(s, shuffledDeck, shuffledReserve)
  ELSE
    LET cardDims == getCurrentCardDimensions(s)
        deckScreen == Pt(QAdd(QInt(DeckMargin), Half(cardDims.width)),
                         QSub(QSub(QInt(InnerHeight), QInt(DeckMargin)),
                              Half(cardDims.height)))
        targetWorld == screenToWorld(s, deckScreen)
        targetX == QSub(targetWorld.x, Half(cardDims.width))
        targetY == QSub(targetWorld.y, Half(cardDims.height))
        FlyBack(c) == [c EXCEPT !.x = targetX, !.y = targetY, !.rotation = 0,
                                !.isFlipped = FALSE, !.zIndex = ReturnZIndex]
    IN  [s EXCEPT !.isReturningCards = TRUE,
                  !.placedCards = [i \in 1..Len(@) |-> FlyBack(@[i])],
                  !.timers = Append(@, [kind |-> "settle", deck |-> s.deck,
                                        reserveCards |-> s.reserveCards,
                                        placedCards |-> s.placedCards,
                                        activeFilter |-> s.activeFilter])]

\* the card data of the placed cards (lines 190-199)
allCardsOnTable(placed) ==
  [i \in 1..Len(placed) |->
     [id |-> placed[i].id, arcana |-> placed[i].arcana, img |-> placed[i].img]]

\* [...deck, ...reserveCards, ...allCardsOnTable] of the closure (line 201)
fullCollection(c) == c.deck \o c.reserveCards \o allCardsOnTable(c.placedCards)

\* a settle callback that puts the whole collection on the pile, whatever the filter
settleCallbackAllToPile(s, c, shuffledCollection) ==
  [s EXCEPT !.placedCards = <<>>,
            !.deck = shuffledCollection,
            !.reserveCards = <<>>,
            !.isReturningCards = FALSE,
            !.isShufflingDeck = TRUE,
            !.timers = Append(@, ShuffleEndTimer)]

\* the settle callback (lines 189-225); c is its closure, shuffledCollection the
\* outcome of shuffleDeck(fullCollection)
settleCallback(s, c, shuffledCollection) ==
  [s EXCEPT !.placedCards = <<>>,
            !.deck = FilterDeck(c.activeFilter, shuffledCollection),
            !.reserveCards = FilterReserve(c.activeFilter, shuffledCollection),
            !.isReturningCards = FALSE,
            !.isShufflingDeck = TRUE,
            !.timers = Append(@, ShuffleEndTimer)]

\* a shuffle-end callback that leaves the flag set
shuffleEndCallbackKeepsFlag(s) == s

\* () => setIsShufflingDeck(false) (lines 167, 223)
shuffleEndCallback(s) == [s EXCEPT !.isShufflingDeck = FALSE]

\* a collect button that is never disabled
collectButtonAlwaysEnabled(s) == TRUE

\* the collect button is disabled while an animation runs (line 590)
collectButtonEnabled(s) == ~(s.isReturningCards \/ s.isShufflingDeck)

\* a ref effect that refreshes the pan and leaves the zoom for later
syncRefsPanFirst(s) == [s EXCEPT !.panRef = s.pan]

\* the effect that copies pan and zoom into the refs (lines 55-58)
syncRefs(s) == [s EXCEPT !.panRef = s.pan, !.zoomRef = s.zoom]

RemoveAt(q, i) == [j \in 1..(Len(q) - 1) |-> IF j < i THEN q[j] ELSE q[j + 1]]


(***************************************************************************)
(* Initial state: the component after mount, resetGame('noblet') done and  *)
(* the refs synchronised.                                                  *)
(***************************************************************************)
Origin == PtInt(0, 0)

\* resetGame (lines 99-117); newDeck is the outcome of shuffleDeck(createDeck(style))
resetGame(s, newDeck) ==
  LET isMobile == InnerWidth < DesktopMinWidth
      initialX == QSub(Half(QInt(InnerWidth)), QInt(IF isMobile THEN 0 ELSE 100))
      initialY == QSub(Half(QInt(InnerHeight)), QInt(IF isMobile THEN 100 ELSE 200))
      initialZoom == IF isMobile THEN Q(7, 10) ELSE QInt(1)
  IN  [s EXCEPT !.deck = newDeck, !.reserveCards = <<>>, !.placedCards = <<>>,
                !.zIndexCounter = InitialZIndex, !.activeFilter = "ALL",
                !.pan = Pt(initialX, initialY), !.zoom = initialZoom,
                !.isReturningCards = FALSE, !.isShufflingDeck = FALSE]

\* the useState / useRef initial values (lines 29-75)
Unmounted ==
  [deck |-> <<>>, reserveCards |-> <<>>, placedCards |-> <<>>,
   zIndexCounter |-> InitialZIndex, currentDeckStyle |-> "noblet",
   activeFilter |-> "ALL", isReturningCards |-> FALSE, isShufflingDeck |-> FALSE,
   pan |-> Origin, zoom |-> QInt(1), isPanning |-> FALSE, isSpacePressed |-> FALSE,
   panRef |-> Origin, zoomRef |-> QInt(1), lastPinchDistRef |-> NullDist,
   touchRecent |-> FALSE, isDragging |-> FALSE, dragSource |-> "null",
   draggedCardId |-> NullId, isRotating |-> FALSE, rotatingCardId |-> NullId,
   rotationCenterRef |-> Origin, lastMouseAngleRef |-> 0, dragOffset |-> Origin,
   ghostPosition |-> Origin, dragStartPos |-> Origin, panStartRef |-> Origin,
   timers |-> <<>>]

NoEvent == [type |-> "mount", target |-> <<"none">>, pos |-> Origin]

\* the program variables take the values of the record s2
Becomes(s2) ==
  /\ deck' = s2.deck
  /\ reserveCards' = s2.reserveCards
  /\ placedCards' = s2.placedCards
  /\ zIndexCounter' = s2.zIndexCounter
  /\ currentDeckStyle' = s2.currentDeckStyle
  /\ activeFilter' = s2.activeFilter
  /\ isReturningCards' = s2.isReturningCards
  /\ isShufflingDeck' = s2.isShufflingDeck
  /\ pan' = s2.pan
  /\ zoom' = s2.zoom
  /\ isPanning' = s2.isPanning
  /\ isSpacePressed' = s2.isSpacePressed
  /\ panRef' = s2.panRef
  /\ zoomRef' = s2.zoomRef
  /\ lastPinchDistRef' = s2.lastPinchDistRef
  /\ touchRecent' = s2.touchRecent
  /\ isDragging' = s2.isDragging
  /\ dragSource' = s2.dragSource
  /\ draggedCardId' = s2.draggedCardId
  /\ isRotating' = s2.isRotating
  /\ rotatingCardId' = s2.rotatingCardId
  /\ rotationCenterRef' = s2.rotationCenterRef
  /\ lastMouseAngleRef' = s2.lastMouseAngleRef
  /\ dragOffset' = s2.dragOffset
  /\ ghostPosition' = s2.ghostPosition
  /\ dragStartPos' = s2.dragStartPos
  /\ panStartRef' = s2.panStartRef
  /\ timers' = s2.timers

\* the program variables have the values of the record s, no input is active
StartsAs(s) ==
  /\ deck = s.deck
  /\ reserveCards = s.reserveCards
  /\ placedCards = s.placedCards
  /\ zIndexCounter = s.zIndexCounter
  /\ currentDeckStyle = s.currentDeckStyle
  /\ activeFilter = s.activeFilter
  /\ isReturningCards = s.isReturningCards
  /\ isShufflingDeck = s.isShufflingDeck
  /\ pan = s.pan
  /\ zoom = s.zoom
  /\ isPanning = s.isPanning
  /\ isSpacePressed = s.isSpacePressed
  /\ panRef = s.panRef
  /\ zoomRef = s.zoomRef
  /\ lastPinchDistRef = s.lastPinchDistRef
  /\ touchRecent = s.touchRecent
  /\ isDragging = s.isDragging
  /\ dragSource = s.dragSource
  /\ draggedCardId = s.draggedCardId
  /\ isRotating = s.isRotating
  /\ rotatingCardId = s.rotatingCardId
  /\ rotationCenterRef = s.rotationCenterRef
  /\ lastMouseAngleRef = s.lastMouseAngleRef
  /\ dragOffset = s.dragOffset
  /\ ghostPosition = s.ghostPosition
  /\ dragStartPos = s.dragStartPos
  /\ panStartRef = s.panStartRef
  /\ timers = s.timers
  /\ touches = <<>>
  /\ buttons = {}
  /\ lastEvent = NoEvent
  /\ viewOps = 0

\* the mounted component for one outcome of the first shuffle
Mounted(newDeck) == syncRefs(resetGame(Unmounted, newDeck))

Init == \E newDeck \in shuffleDeck(createDeck("noblet")) : StartsAs(Mounted(newDeck))

(***************************************************************************)
(* Actions: one per event the component handles.                           *)
(***************************************************************************)
\* one step: the handler's result s2, the event ev it handled
\* The bounds of the exploration: the stack-order counter, the accumulated
\* rotation and the number of viewport changes are capped.  A step may raise
\* the counter up to InitialZIndex + MaxZ, and by one more during a fly-back,
\* so that a card can be raised over a table that already holds MaxZ cards.
WithinBounds(s2, ops) ==
  /\ ops <= MaxViewOps
  /\ s2.zIndexCounter > zIndexCounter
       => s2.zIndexCounter <= InitialZIndex + MaxZ + (IF s2.isReturningCards THEN 1 ELSE 0)
  /\ Len(s2.timers) <= MaxTimers
  /\ \A i \in 1..Len(s2.placedCards) :
       Abs(s2.placedCards[i].rotation) <= 180 * MaxHalfTurns

Handled(s2, ev) ==
  LET ops == IF s2.pan # pan \/ s2.zoom # zoom THEN viewOps + 1 ELSE viewOps
  IN  /\ WithinBounds(s2, ops)
      /\ Becomes(s2)
      /\ lastEvent' = ev
      /\ viewOps' = ops

Event(type, target, pos) == [type |-> type, target |-> target, pos |-> pos]

MouseDown(target, b, p) ==
  /\ b \notin buttons
  /\ target \in Targets(S)
  /\ LET e == [isTouch |-> FALSE, button |-> b, pos |-> p, nTouches |-> 0, changed |-> p]
     IN  Handled(pointerDown(S, target, e, touches), Event("mousedown", target, p))
  /\ buttons' = buttons \cup {b}
  /\ UNCHANGED touches

TouchStart(target, p) ==
  /\ Len(touches) < MaxTouches
  /\ target \in Targets(S)
  /\ LET ts == Append(touches, p)
         e == [isTouch |-> TRUE, button |-> 0, pos |-> ts[1], nTouches |-> Len(ts),
               changed |-> p]
     IN  /\ Handled(pointerDown(S, target, e, ts), Event("touchstart", target, p))
         /\ touches' = ts
  /\ UNCHANGED buttons

\* one touchstart event that brings two fingers down on the open background
TouchStartTwo(p, q) ==
  /\ touches = <<>> /\ MaxTouches >= 2
  /\ LET ts == <<p, q>>
         e == [isTouch |-> TRUE, button |-> 0, pos |-> p, nTouches |-> 2, changed |-> p]
     IN  /\ Handled(pointerDown(S, <<"background">>, e, ts),
                    Event("touchstart", <<"background">>, p))
         /\ touches' = ts
  /\ UNCHANGED buttons

MouseMove(p) ==
  /\ LET e == [isTouch |-> FALSE, button |-> 0, pos |-> p, nTouches |-> 0, changed |-> p]
     IN  Handled(handleMove(S, e, touches), Event("mousemove", <<"none">>, p))
  /\ UNCHANGED <<touches, buttons>>

\* finger i moves to p
TouchMove(i, p) ==
  /\ i \in 1..Len(touches)
  /\ touches[i] # p
  /\ LET ts == [touches EXCEPT ![i] = p]
         e == [isTouch |-> TRUE, button |-> 0, pos |-> ts[1], nTouches |-> Len(ts),
               changed |-> p]
     IN  /\ Handled(handleMove(S, e, ts), Event("touchmove", <<"none">>, p))
         /\ touches' = ts
  /\ UNCHANGED buttons

MouseUp(b, p, instanceId) ==
  /\ b \in buttons
  /\ LET e == [isTouch |-> FALSE, button |-> b, pos |-> p, nTouches |-> 0, changed |-> p]
     IN  Handled(handleEnd(S, e, instanceId), Event("mouseup", <<"none">>, p))
  /\ buttons' = buttons \ {b}
  /\ UNCHANGED touches

\* finger i lifts
TouchEnd(i, instanceId) ==
  /\ i \in 1..Len(touches)
  /\ LET ts == RemoveAt(touches, i)
         e == [isTouch |-> TRUE, button |-> 0,
               pos |-> IF Len(ts) > 0 THEN ts[1] ELSE Origin,
               nTouches |-> Len(ts), changed |-> touches[i]]
     IN  /\ Handled(handleEnd(S, e, instanceId), Event("touchend", <<"none">>, touches[i]))
         /\ touches' = ts
  /\ UNCHANGED buttons

KeyDownSpace ==
  /\ ~isSpacePressed
  /\ Handled(handleKeyDown(S), Event("keydown", <<"none">>, Origin))
  /\ UNCHANGED <<touches, buttons>>

KeyUpSpace ==
  /\ isSpacePressed
  /\ Handled(handleKeyUp(S), Event("keyup", <<"none">>, Origin))
  /\ UNCHANGED <<touches, buttons>>

Wheel(deltaY, p) ==
  /\ Handled(handleWheel(S, deltaY, p), Event("wheel", <<"none">>, p))
  /\ UNCHANGED <<touches, buttons>>

ZoomStepClick(delta) ==
  /\ Handled(zoomStep(S, delta), Event("zoomstep", <<"none">>, ViewportCenter))
  /\ UNCHANGED <<touches, buttons>>

ZoomResetClick ==
  /\ Handled(zoomReset(S), Event("zoomreset", <<"none">>, Origin))
  /\ UNCHANGED <<touches, buttons>>

\* a press of the collect button; a disabled button delivers no click (line 590)
CollectClick ==
  /\ IF collectButtonEnabled(S)
       THEN \E d \in shuffleDeck(deck), r \in shuffleDeck(reserveCards) :
              Handled(handleShuffleAndReset(S, d, r), Event("collect", <<"none">>, Origin))
       ELSE Handled(S, Event("collect", <<"disabled">>, Origin))
  /\ UNCHANGED <<touches, buttons>>

\* a pending setTimeout callback runs
TimerFires(i) ==
  /\ i \in 1..Len(timers)
  /\ LET c == timers[i]
         s == [S EXCEPT !.timers = RemoveAt(timers, i)]
     IN  IF c.kind = "settle"
           THEN \E shuffled \in shuffleDeck(fullCollection(c)) :
                  Handled(settleCallback(s, c, shuffled),
                          Event("settle", <<"none">>, Origin))
           ELSE Handled(shuffleEndCallback(s), Event("shuffleEnd", <<"none">>, Origin))
  /\ UNCHANGED <<touches, buttons>>

FilterChange(type) ==
  /\ Handled(handleFilterChange(S, type), Event("filter", <<type>>, Origin))
  /\ UNCHANGED <<touches, buttons>>

StyleChange(newStyle) ==
  /\ newStyle # currentDeckStyle
  /\ Handled(handleStyleChange(S, newStyle), Event("style", <<newStyle>>, Origin))
  /\ UNCHANGED <<touches, buttons>>

\* a press of the Reset button: resetGame(currentDeckStyle) (App.tsx line 333)
ResetClick ==
  /\ \E newDeck \in shuffleDeck(createDeck(currentDeckStyle)) :
       Handled(resetGame(S, newDeck), Event("reset", <<"none">>, Origin))
  /\ UNCHANGED <<touches, buttons>>

SyncRefs ==
  /\ panRef # pan \/ zoomRef # zoom
  /\ Handled(syncRefs(S), Event("syncRefs", <<"none">>, Origin))
  /\ UNCHANGED <<touches, buttons>>

\* 500 ms have passed since the last touch start recorded in lastTouchTimeRef
TouchGuardExpires ==
  /\ touchRecent
  /\ Handled([S EXCEPT !.touchRecent = FALSE], Event("guardExpires", <<"none">>, Origin))
  /\ UNCHANGED <<touches, buttons>>


(***************************************************************************)
(* Inputs and the next-state relations.  Next is the whole component; the  *)
(* relations after it are Next restricted to the events of one concern and *)
(* to fewer input values.                                                  *)
(***************************************************************************)
\* pointer positions on one line of slope 4/3: 5, 15 and 500 px from the first
P0 == PtInt(100, 100)
P5 == PtInt(103, 104)
P15 == PtInt(109, 112)
PFar == PtInt(400, 500)
\* a point of the pile, which sits at the bottom left of the window
PDeck == PtInt(120, 430)
\* where the restricted relations press a target: the pile at PDeck, the open
\* background at PFar, a card (dropped at P0, P5 or P15) at P0
PointOn(target) ==
  IF target[1] = "deck" THEN PDeck
  ELSE IF target[1] = "background" THEN PFar
  ELSE P0
PointInputs == {P0, P5, P15, PFar, PDeck}
Buttons == {0, 1}
WheelDeltas == {QInt(-5000), QInt(500), QInt(950)}
AllTargets ==
  {<<"background">>, <<"deck">>}
  \cup {<<"card", i>> : i \in 1..(NumMajor + NumMinor)}
  \cup {<<"rotate", i>> : i \in 1..(NumMajor + NumMinor)}

Next ==
  \/ \E target \in AllTargets, b \in Buttons, p \in PointInputs : MouseDown(target, b, p)
  \/ \E target \in AllTargets, p \in PointInputs : TouchStart(target, p)
  \/ \E p, q \in PointInputs : TouchStartTwo(p, q)
  \/ \E p \in PointInputs : MouseMove(p)
  \/ \E i \in 1..MaxTouches, p \in PointInputs : TouchMove(i, p)
  \/ \E b \in Buttons, p \in PointInputs, id \in InstanceIds : MouseUp(b, p, id)
  \/ \E i \in 1..MaxTouches, id \in InstanceIds : TouchEnd(i, id)
  \/ KeyDownSpace
  \/ KeyUpSpace
  \/ \E d \in WheelDeltas, p \in PointInputs : Wheel(d, p)
  \/ \E d \in {ZoomStepDelta, QNeg(ZoomStepDelta)} : ZoomStepClick(d)
  \/ ZoomResetClick
  \/ CollectClick
  \/ \E i \in 1..MaxTimers : TimerFires(i)
  \/ \E type \in FilterTypes : FilterChange(type)
  \/ \E style \in DeckStyles : StyleChange(style)
  \/ ResetClick
  \/ SyncRefs
  \/ TouchGuardExpires

Spec == Init /\ [][Next]_vars

\* an instanceId that no card on the table has: the usual outcome of Math.random
FreshId == zIndexCounter + 1

\* the table model: draws from the pile, collect, the timers and the filter
NextTable ==
  \/ MouseDown(<<"deck">>, 0, PDeck)
  \/ MouseUp(0, P0, FreshId)
  \/ CollectClick
  \/ \E i \in 1..1 : TimerFires(i)
  \/ \E type \in FilterTypes : FilterChange(type)

SpecTable == Init /\ [][NextTable]_vars

\* the mouse gestures with the left button
NextMouse ==
  \/ \E target \in AllTargets : MouseDown(target, 0, PointOn(target))
  \/ MouseMove(P15)
  \/ \E p \in {P0, P5, P15} : MouseUp(0, p, FreshId)

SpecMouse == Init /\ [][NextMouse]_vars

\* the touch gestures
NextTouch ==
  \/ \E target \in AllTargets : TouchStart(target, PointOn(target))
  \/ TouchMove(1, P15)
  \/ \E i \in 1..MaxTouches : TouchEnd(i, FreshId)

SpecTouch == Init /\ [][NextTouch]_vars

\* a draw from the pile on a viewport that the wheel zooms
NextDraw ==
  \/ MouseDown(<<"deck">>, 0, PDeck)
  \/ MouseMove(P15)
  \/ \E p \in {P0, P15} : MouseUp(0, p, FreshId)
  \/ Wheel(QInt(500), PFar)
  \/ SyncRefs

SpecDraw == Init /\ [][NextDraw]_vars

\* the viewport: wheel, zoom buttons, touch pan and pinch, the ref effect; the
\* first shuffle left the deck in the order of createDeck
NextView ==
  \/ \E p \in {P0, P5} : TouchStart(<<"background">>, p)
  \/ TouchMove(2, PFar)
  \/ \E i \in 1..MaxTouches : TouchEnd(i, FreshId)
  \/ Wheel(QInt(-5000), PFar)
  \/ Wheel(QInt(950), P0)
  \/ ZoomStepClick(ZoomStepDelta)
  \/ ZoomResetClick
  \/ SyncRefs

SpecView == StartsAs(Mounted(createDeck("noblet"))) /\ [][NextView]_vars

\* the two coordinate conversions: the viewport is any of PanInputs x ZoomInputs,
\* a drop converts screen to world, a rotate start converts world to screen
PanInputs == {Pt(QInt(300), QInt(100)), Pt(Q(-75, 2), Q(1001, 3)), Origin}
ZoomInputs == {ZoomMin, Q(1, 3), Q(7, 10), QInt(1), ZoomMax}

InitConvert ==
  \E newDeck \in shuffleDeck(createDeck("noblet")), p \in PanInputs, z \in ZoomInputs :
    StartsAs(syncRefs([Mounted(newDeck) EXCEPT !.pan = p, !.zoom = z]))

NextConvert ==
  \/ MouseDown(<<"deck">>, 0, PDeck)
  \/ \E p \in {P0, PFar} : MouseUp(0, p, FreshId)
  \/ \E i \in 1..(NumMajor + NumMinor) : MouseDown(<<"rotate", i>>, 0, P15)

SpecConvert == InitConvert /\ [][NextConvert]_vars

\* the rotation delta: a card is being rotated, the last pointer angle is any of
\* AngleInputs, and the pointer moves to any angle of AngleInputs
AngleInputs == {-180, -179, -135, -91, -90, -89, -1, 0, 1, 89, 90, 91, 135, 179, 180}

Rotating(lastAngle) ==
  LET at(p) == [isTouch |-> FALSE, button |-> 0, pos |-> p, nTouches |-> 0, changed |-> p]
      s1 == handleStartDeck(Mounted(createDeck("noblet")), at(PDeck)).s
      s2 == handleEnd(s1, at(P0), 1)
      s3 == handleStartRotate(s2, at(P15), s2.placedCards[1])
  IN  [s3 EXCEPT !.lastMouseAngleRef = lastAngle]

InitAngle ==
  /\ \E a \in AngleInputs : StartsAs(Rotating(a))

\* a pointer move that the pivot sees at currentAngle
RotateTo(currentAngle) ==
  /\ isRotating /\ rotatingCardId # NullId
  /\ Handled(rotateMove(S, currentAngle), Event("rotate", <<"angle", currentAngle>>, Origin))
  /\ UNCHANGED <<touches, buttons>>

NextAngle == \E a \in AngleInputs : RotateTo(a)

SpecAngle == InitAngle /\ [][NextAngle]_vars

\* collect and reshuffle with the events that may interleave with them; the
\* first shuffle left the deck in the order of createDeck, and a scheduled
\* setTimeout callback eventually runs
NextLive ==
  \/ MouseDown(<<"deck">>, 0, PDeck)
  \/ MouseUp(0, P0, FreshId)
  \/ CollectClick
  \/ \E i \in 1..1 : TimerFires(i)
  \/ FilterChange("MAJOR")
  \/ StyleChange("cbd")

SpecLive ==
  /\ StartsAs(Mounted(createDeck("noblet")))
  /\ [][NextLive]_vars
  /\ WF_vars(\E i \in 1..1 : TimerFires(i))

\* the Reset button among pile draws, rotation starts, collect and the timers
NextReset ==
  \/ MouseDown(<<"deck">>, 0, PDeck)
  \/ MouseDown(<<"rotate", 1>>, 0, P15)
  \/ MouseUp(0, P0, FreshId)
  \/ CollectClick
  \/ \E i \in 1..MaxTimers : TimerFires(i)
  \/ ResetClick

SpecReset == Init /\ [][NextReset]_vars

\* touch and mouse events on the same targets, and the end of the 500 ms
\* after a touch start
NextGuard ==
  \/ \E target \in {<<"deck">>, <<"card", 1>>, <<"background">>} :
       TouchStart(target, PointOn(target))
  \/ TouchEnd(1, FreshId)
  \/ \E target \in {<<"deck">>, <<"card", 1>>, <<"background">>} :
       MouseDown(target, 0, PointOn(target))
  \/ MouseMove(P15)
  \/ MouseUp(0, P0, FreshId)
  \/ TouchGuardExpires

SpecGuard == Init /\ [][NextGuard]_vars

\* a pinch over a gesture: the first finger starts a gesture on any target, a
\* second finger then goes down on the open background, moves and lifts; the
\* ref effect runs at any time after a viewport change
NextPinch ==
  \/ touches = <<>> /\ \E target \in AllTargets : TouchStart(target, PointOn(target))
  \/ Len(touches) = 1 /\ TouchStart(<<"background">>, P5)
  \/ \E p \in {P15, PFar} : TouchMove(2, p)
  \/ TouchEnd(2, FreshId)
  \/ Len(touches) = 1 /\ TouchEnd(1, FreshId)
  \/ SyncRefs

SpecPinch == Init /\ [][NextPinch]_vars

\* the space modifier: the left mouse button on the pile and on a placed card
\* with the space bar up or down, and a touch that opens the 500 ms window
NextSpace ==
  \/ KeyDownSpace
  \/ KeyUpSpace
  \/ \E target \in {<<"deck">>, <<"card", 1>>} : MouseDown(target, 0, PointOn(target))
  \/ MouseUp(0, P0, FreshId)
  \/ TouchStart(<<"background">>, PFar)
  \/ TouchEnd(1, FreshId)
  \/ TouchGuardExpires

SpecSpace == Init /\ [][NextSpace]_vars

\* presses on the open background: left and middle mouse button, space bar,
\* one finger, and two fingers at once
NextBackground ==
  \/ \E b \in Buttons : MouseDown(<<"background">>, b, PFar)
  \/ \E b \in Buttons : MouseUp(b, P0, FreshId)
  \/ MouseMove(P15)
  \/ KeyDownSpace
  \/ KeyUpSpace
  \/ TouchStart(<<"background">>, PFar)
  \/ TouchStartTwo(P0, PFar)
  \/ \E i \in 1..MaxTouches : TouchEnd(i, FreshId)
  \/ TouchGuardExpires

SpecBackground == Init /\ [][NextBackground]_vars

\* a collect among the mouse gestures on the pile and on the first placed card
NextFlyBack ==
  \/ \E target \in {<<"deck">>, <<"card", 1>>, <<"rotate", 1>>} :
       MouseDown(target, 0, PointOn(target))
  \/ MouseMove(P15)
  \/ MouseUp(0, P0, FreshId)
  \/ CollectClick
  \/ \E i \in 1..MaxTimers : TimerFires(i)

SpecFlyBack == Init /\ [][NextFlyBack]_vars

\* panning by mouse and by one finger at several zoom levels, the movement
\* split into one or two move events
NextPan ==
  \/ MouseDown(<<"background">>, 0, P0)
  \/ \E p \in {P5, P15, PFar} : MouseMove(p)
  \/ MouseUp(0, P0, FreshId)
  \/ (touches = <<>> /\ TouchStart(<<"background">>, P0))
  \/ \E p \in {P5, P15, PFar} : TouchMove(1, p)
  \/ TouchEnd(1, FreshId)
  \/ TouchGuardExpires
  \/ \E d \in {QInt(500), QInt(-5000)} : Wheel(d, PFar)

SpecPan == StartsAs(Mounted(createDeck("noblet"))) /\ [][NextPan]_vars

\* a placed card dragged by mouse or by one finger while the wheel zooms
NextDrag ==
  \/ MouseDown(<<"deck">>, 0, PDeck)
  \/ MouseDown(<<"card", 1>>, 0, P0)
  \/ \E p \in {P15, PFar} : MouseMove(p)
  \/ MouseUp(0, P0, FreshId)
  \/ (touches = <<>> /\ TouchStart(<<"card", 1>>, P0))
  \/ \E p \in {P15, PFar} : TouchMove(1, p)
  \/ TouchEnd(1, FreshId)
  \/ TouchGuardExpires
  \/ \E d \in {QInt(500), QInt(-5000)} : Wheel(d, PFar)

SpecDrag == StartsAs(Mounted(createDeck("noblet"))) /\ [][NextDrag]_vars

\* one rotation gesture on a card dropped at P0, so that its centre, the pivot,
\* is P0: the press at P15, then the pointer carried around the pivot through
\* the four axis directions
NextTurn ==
  \/ MouseDown(<<"deck">>, 0, PDeck)
  \/ ((\A i \in 1..Len(placedCards) : placedCards[i].rotation = 0)
        /\ MouseDown(<<"rotate", 1>>, 0, P15))
  \/ \E p \in {PtInt(200, 100), PtInt(100, 200), PtInt(0, 100), PtInt(100, 0)} : MouseMove(p)
  \/ MouseUp(0, P0, FreshId)

SpecTurn == Init /\ [][NextTurn]_vars

\* the zoom at and around its limits: the wheel at two cursor positions, the
\* zoom-step buttons, a pinch, and the ref effect
NextClamp ==
  \/ \E d \in {QInt(-5000), QInt(5000)}, p \in {P0, PFar} : Wheel(d, p)
  \/ \E d \in {ZoomStepDelta, QNeg(ZoomStepDelta)} : ZoomStepClick(d)
  \/ TouchStartTwo(P0, P5)
  \/ \E p \in {P15, PFar} : TouchMove(2, p)
  \/ \E i \in 1..MaxTouches : TouchEnd(i, FreshId)
  \/ SyncRefs

SpecClamp == StartsAs(Mounted(createDeck("noblet"))) /\ [][NextClamp]_vars

\* every event that changes the viewport, interleaved with the ref effect
NextSnapshot ==
  \/ \E d \in {QInt(-5000), QInt(500)}, p \in {P0, PFar} : Wheel(d, p)
  \/ ZoomStepClick(ZoomStepDelta)
  \/ ZoomResetClick
  \/ MouseDown(<<"background">>, 0, P0)
  \/ \E p \in {P15, PFar} : MouseMove(p)
  \/ MouseUp(0, P0, FreshId)
  \/ TouchStartTwo(P0, P5)
  \/ \E p \in {P15, PFar} : TouchMove(2, p)
  \/ \E i \in 1..MaxTouches : TouchEnd(i, FreshId)
  \/ SyncRefs

SpecSnapshot == StartsAs(Mounted(createDeck("noblet"))) /\ [][NextSnapshot]_vars

\* draws from the pile with any outcome of Math.random for the instanceId, and
\* the gestures on the placed cards
NextIds ==
  \/ MouseDown(<<"deck">>, 0, PDeck)
  \/ \E i \in 1..(NumMajor + NumMinor) : MouseDown(<<"card", i>>, 0, P0)
  \/ \E i \in 1..(NumMajor + NumMinor) : MouseDown(<<"rotate", i>>, 0, P0)
  \/ MouseMove(P15)
  \/ \E p \in {P0, P15}, id \in InstanceIds : MouseUp(0, p, id)

SpecIds == Init /\ [][NextIds]_vars

\* shuffleDeck on its own: the argument, any array of at most MaxShuffleLen
\* cards with repetitions, is held in deck, and a call leaves the argument as
\* it is after the call in deck and the returned array in reserveCards
RECURSIVE ArraysOver(_, _)
ArraysOver(elems, n) ==
  IF n = 0 THEN {<<>>}
  ELSE LET shorter == ArraysOver(elems, n - 1)
       IN  shorter \cup {Append(a, x) : a \in shorter, x \in elems}

InitShuffle ==
  \E a \in ArraysOver({createDeck("noblet")[i] : i \in 1..(NumMajor + NumMinor)},
                       MaxShuffleLen) :
    StartsAs([Unmounted EXCEPT !.deck = a])

ShuffleCall ==
  /\ \E c \in shuffleDeckCall(deck) :
       Handled([S EXCEPT !.deck = c.array, !.reserveCards = c.newArray],
               Event("shuffleDeck", <<"none">>, Origin))
  /\ UNCHANGED <<touches, buttons>>

NextShuffle == ShuffleCall

SpecShuffle == InitShuffle /\ [][NextShuffle]_vars

(***************************************************************************)
(* Properties.                                                             *)
(***************************************************************************)
Ids(cards) == [i \in 1..Len(cards) |-> cards[i].id]
AllCardIds == Ids(deck) \o Ids(reserveCards) \o Ids(placedCards)
Count(seq, x) == Cardinality({i \in 1..Len(seq) : seq[i] = x})

\* C1: in every state the ids of the draw pile, the reserve and the table are
\* pairwise disjoint, without duplicate, and together exactly the ids of the
\* full deck.
DeckPartition ==
  /\ Len(AllCardIds) = Cardinality(AllIds)
  /\ Range(AllCardIds) = AllIds

ActiveGestures ==
  (IF isPanning THEN 1 ELSE 0) + (IF isRotating THEN 1 ELSE 0)
  + (IF isDragging /\ dragSource = "DECK" THEN 1 ELSE 0)
  + (IF isDragging /\ dragSource = "TABLE" THEN 1 ELSE 0)

Gesture == <<isPanning, isRotating, rotatingCardId, isDragging, dragSource, draggedCardId>>

\* C2: at most one of the gestures panning, rotating, dragging from the pile and
\* dragging a placed card is active, and a pointer-down or touch-start that
\* arrives while a gesture is active neither starts a second gesture nor
\* replaces the active one.
ExclusiveGesture ==
  [][/\ ActiveGestures' <= 1
     /\ (lastEvent'.type \in {"mousedown", "touchstart"} /\ ActiveGestures = 1)
          => UNCHANGED Gesture]_vars

\* C3: in every state 0.1 <= zoom <= 5, after any sequence of wheel events,
\* pinch moves, zoom-step presses and zoom-reset presses.
ZoomInRange == QLe(ZoomMin, zoom) /\ QLe(zoom, ZoomMax)

\* a wheel event asked for more than the largest zoom and got the largest
ZoomClampedByWheel == lastEvent.type = "wheel" /\ zoom = ZoomMax /\ zoomRef # ZoomMax

\* the anchor of a zoom: the cursor of a wheel event, else the viewport centre
ZoomAnchor(ev) == IF ev.type = "wheel" THEN ev.pos ELSE ViewportCenter

\* C4: every zoom change applied by a wheel event, a zoom-step button or a pinch
\* move keeps the world point under its anchor fixed: screenToWorld(anchor)
\* with the new pan and zoom equals screenToWorld(anchor) with the old ones,
\* also when the requested zoom was clamped.
AnchorFixed ==
  [][(/\ \/ lastEvent'.type \in {"wheel", "zoomstep"}
         \/ lastEvent'.type = "touchmove" /\ Len(touches') = 2
      /\ zoom' # zoom)
     => LET a == ZoomAnchor(lastEvent')
        IN  ScreenToWorldAt(pan', zoom', a.x, a.y) = ScreenToWorldAt(pan, zoom, a.x, a.y)]_vars

\* C5: for every screen point, every pan and every zoom in [0.1, 5], converting
\* screen to world ((s - pan) / zoom) and back (world * zoom + pan) returns the
\* original screen point.
RoundTrip ==
  \A s \in PointInputs :
    LET w == ScreenToWorldAt(pan, zoom, s.x, s.y)
    IN  WorldToScreenAt(pan, zoom, w.x, w.y) = s

\* a card dropped at a screen point on a zoomed viewport is grabbed by its rotate
\* handle: the pivot, converted back from the card's world position, is the
\* drop point
PivotIsDropPoint ==
  /\ isRotating /\ Len(placedCards) = 1
  /\ zoom = Q(1, 3) /\ pan # Origin
  /\ rotationCenterRef = PFar

ClaimedThreshold(ev) == IF ev.type = "mouseup" THEN QInt(5) ELSE QInt(15)

Flipped(cards, instanceId) ==
  {cards[i].isFlipped : i \in {j \in 1..Len(cards) : cards[j].instanceId = instanceId}}

\* C7: when a drag of a placed card ends, the card's face-up state is toggled if
\* and only if the distance between the pointer-down and the pointer-up position
\* is below the tap threshold, 5 px with the mouse and 15 px by touch; at or
\* above the threshold the flip state is unchanged.
TapThreshold ==
  [][(isDragging /\ dragSource = "TABLE" /\ draggedCardId # NullId /\ ~isDragging')
     => LET below == QLt(Dist(lastEvent'.pos, dragStartPos), ClaimedThreshold(lastEvent'))
        IN  (Flipped(placedCards', draggedCardId) # Flipped(placedCards, draggedCardId))
              <=> below]_vars

\* the rotation of the card that is being rotated
RotationOf(cards, instanceId) ==
  LET i == CHOOSE j \in 1..Len(cards) : cards[j].instanceId = instanceId
  IN  cards[i].rotation

\* what a rotating move added to the card's rotation
AddedRotation == RotationOf(placedCards', rotatingCardId) - RotationOf(placedCards, rotatingCardId)

\* C8 as stated: for previous and current pointer angles in [-180, 180] the
\* delta a rotating move adds to the rotation lies in the half-open interval
\* (-180, 180] and is congruent to current - previous modulo 360; for previous
\* 179 and current -179 it is +2.
RotationDeltaHalfOpen ==
  [][lastEvent'.type = "rotate"
     => /\ AddedRotation > -180 /\ AddedRotation <= 180
        /\ (AddedRotation - (lastMouseAngleRef' - lastMouseAngleRef)) % 360 = 0
        /\ (lastMouseAngleRef = 179 /\ lastMouseAngleRef' = -179) => AddedRotation = 2]_vars

\* C8, amended: the delta lies in the closed interval [-180, 180] (a difference
\* of exactly -180 stays -180) and is congruent to current - previous modulo
\* 360; for previous 179 and current -179 it is +2.
RotationDeltaClosed ==
  [][lastEvent'.type = "rotate"
     => /\ AddedRotation >= -180 /\ AddedRotation <= 180
        /\ (AddedRotation - (lastMouseAngleRef' - lastMouseAngleRef)) % 360 = 0
        /\ (lastMouseAngleRef = 179 /\ lastMouseAngleRef' = -179) => AddedRotation = 2]_vars

\* the pointer has crossed the -180/180 boundary from 179 to -179 and the card,
\* at rotation 0 before, has turned by 2
CrossedBoundary ==
  /\ lastEvent.type = "rotate" /\ lastEvent.target = <<"angle", -179>>
  /\ lastMouseAngleRef = -179
  /\ RotationOf(placedCards, rotatingCardId) = 2

Satisfies(filter, card) ==
  \/ filter = "ALL"
  \/ filter = "MAJOR" /\ card.arcana = "Major"
  \/ filter = "MINOR" /\ card.arcana = "Minor"

\* the card definitions of pile, reserve and table
CardsOf(d, r, placed) ==
  d \o r \o [i \in 1..Len(placed) |->
               [id |-> placed[i].id, arcana |-> placed[i].arcana, img |-> placed[i].img]]

\* C9: a collect requested with at least one card on the table under filter F
\* records pile, reserve, table and F of that moment; right after its settle
\* callback has run the table is empty, the pile holds exactly the recorded
\* cards that satisfy F, and the reserve exactly those that fail F.
CollectSettles ==
  [][/\ (lastEvent'.type = "collect" /\ Len(placedCards) > 0 /\ Len(timers') > Len(timers))
        => LET c == timers'[Len(timers')]
           IN  /\ c.kind = "settle"
               /\ c.deck = deck /\ c.reserveCards = reserveCards
               /\ c.placedCards = placedCards /\ c.activeFilter = activeFilter
     /\ lastEvent'.type = "settle"
        => LET c == timers[1]
               F == c.activeFilter
               all == CardsOf(c.deck, c.reserveCards, c.placedCards)
           IN  /\ placedCards' = <<>>
               /\ activeFilter' = F
               /\ Len(deck') + Len(reserveCards') = Len(all)
               /\ \A i \in 1..Len(all) :
                    /\ Count(deck', all[i]) = IF Satisfies(F, all[i]) THEN Count(all, all[i]) ELSE 0
                    /\ Count(reserveCards', all[i]) =
                         IF Satisfies(F, all[i]) THEN 0 ELSE Count(all, all[i])]_vars

\* a collect under the MAJOR filter has settled: the major card from the table
\* is on the pile, the minor card in the reserve
SettledUnderMajor ==
  /\ lastEvent.type = "settle" /\ activeFilter = "MAJOR"
  /\ placedCards = <<>>
  /\ Len(deck) >= 1 /\ Len(reserveCards) >= 1

\* C10: a collect request made while a previous collect or shuffle is in flight
\* (isReturningCards or isShufflingDeck set) is ignored: it schedules no
\* further deferred callback and changes no state.
CollectIgnoredWhileBusy ==
  [][(lastEvent'.type = "collect" /\ (isReturningCards \/ isShufflingDeck))
     => S' = S]_vars

\* the disabled collect button has been pressed during the fly-back of an
\* earlier collect, whose settle callback is still pending
PressedWhileReturning ==
  /\ lastEvent.type = "collect" /\ lastEvent.target = <<"disabled">>
  /\ isReturningCards /\ Len(timers) = 1 /\ timers[1].kind = "settle"

\* C11: provided the scheduled timer callbacks eventually fire, from every
\* state in which isReturningCards or isShufflingDeck is set a state is
\* eventually reached in which both are cleared, whatever pointer, filter or
\* style events are interleaved.
CollectCompletes ==
  (isReturningCards \/ isShufflingDeck) ~> (~isReturningCards /\ ~isShufflingDeck)

\* a collect of a drawn card has gone through fly-back, settle and shuffle
\* animation, with a style change in between, and both flags are cleared
CollectCompleted ==
  /\ lastEvent.type = "shuffleEnd"
  /\ ~isReturningCards /\ ~isShufflingDeck
  /\ placedCards = <<>> /\ zIndexCounter > InitialZIndex
  /\ currentDeckStyle = "cbd"

\* the positions of all whose card satisfies (keep) or fails (~keep) the filter
Chosen(all, filter, keep) ==
  {i \in 1..Len(all) : Satisfies(filter, all[i]) = keep}

\* sub is all restricted to the positions of Chosen, in the order of all
IsSelection(sub, all, filter, keep) ==
  LET idx == Chosen(all, filter, keep)
  IN  /\ Len(sub) = Cardinality(idx)
      /\ \A j \in idx : sub[Cardinality({i \in idx : i <= j})] = all[j]

\* C12: a filter change made while no animation is in flight leaves the table
\* unchanged; afterwards the pile holds exactly the cards of old pile followed
\* by old reserve that satisfy the filter, the reserve exactly those that do
\* not, each in the relative order of that sequence.
FilterRepartitions ==
  [][(lastEvent'.type = "filter" /\ ~isReturningCards /\ ~isShufflingDeck)
     => LET kind == lastEvent'.target[1]
            all == deck \o reserveCards
        IN  /\ placedCards' = placedCards
            /\ IsSelection(deck', all, kind, TRUE)
            /\ IsSelection(reserveCards', all, kind, FALSE)]_vars

\* a change to the MINOR filter has split the available cards: the minor
\* card is on the pile, the major card in the reserve
FilterSplitMinor ==
  /\ lastEvent.type = "filter" /\ lastEvent.target = <<"MINOR">>
  /\ ~isReturningCards /\ ~isShufflingDeck /\ activeFilter = "MINOR"
  /\ Len(deck) = 1 /\ deck[1].arcana = "Minor"
  /\ Len(reserveCards) = 1 /\ reserveCards[1].arcana = "Major"

\* C13: a filter change requested while a collect or shuffle animation is in
\* flight (isReturningCards or isShufflingDeck set) changes neither pile,
\* reserve, table nor the active filter.
FilterIgnoredWhileBusy ==
  [][(lastEvent'.type = "filter" /\ (isReturningCards \/ isShufflingDeck))
     => /\ deck' = deck /\ reserveCards' = reserveCards
        /\ placedCards' = placedCards /\ activeFilter' = activeFilter]_vars

\* a filter other than the active one has been requested during the fly-back
\* of a collect, and the active filter is still the old one
FilterPressedWhileReturning ==
  /\ lastEvent.type = "filter" /\ lastEvent.target # <<activeFilter>>
  /\ isReturningCards /\ Len(placedCards) > 0

\* cards without their asset URLs
Unskinned(cards) == [i \in 1..Len(cards) |-> [cards[i] EXCEPT !.img = "any"]]

\* the state without the current style and the asset URLs
WithoutSkin(s) ==
  [s EXCEPT !.currentDeckStyle = "any", !.deck = Unskinned(@),
            !.reserveCards = Unskinned(@), !.placedCards = Unskinned(@)]

ResetDealsFullDeck ==
  /\ Len(deck) = NumMajor + NumMinor /\ Range(Ids(deck)) = AllIds
  /\ reserveCards = <<>> /\ placedCards = <<>>

\* C15: right after a full reset, invoked from any reachable state, the pile
\* holds all the cards, reserve and table are empty, and every gesture flag
\* and animation flag is cleared.
ResetRestoresIdle ==
  lastEvent.type = "reset"
    => /\ ResetDealsFullDeck
       /\ ~isPanning /\ ~isDragging /\ ~isRotating
       /\ dragSource = "null" /\ draggedCardId = NullId /\ rotatingCardId = NullId
       /\ ~isReturningCards /\ ~isShufflingDeck

\* C16: a mouse event (down, move or up) that arrives less than 500 ms after
\* a touch event changes no interaction, viewport or table state.  touchRecent
\* says that the last touch start is less than 500 ms old.
MouseIgnoredAfterTouch ==
  [][(lastEvent'.type \in {"mousedown", "mousemove", "mouseup"} /\ touchRecent)
     => S' = S]_vars

\* no gesture is active and no gesture field is set
Idle ==
  /\ ~isPanning /\ ~isDragging /\ ~isRotating
  /\ dragSource = "null" /\ draggedCardId = NullId /\ rotatingCardId = NullId

\* C17: after every pointer-up or touch-end has been handled the interaction
\* state is Idle, whichever branch of the end handling was taken.
IdleAfterEnd ==
  lastEvent.type \in {"mouseup", "touchend"} => Idle

\* C18: if the pile is empty when a drag from the pile ends, the drop is
\* aborted: no card is added to the table, and pile, reserve and stack-order
\* counter are unchanged.
EmptyPileDropAborts ==
  [][(/\ lastEvent'.type \in {"mouseup", "touchend"}
      /\ isDragging /\ dragSource = "DECK" /\ deck = <<>>)
     => /\ placedCards' = placedCards /\ deck' = deck
        /\ reserveCards' = reserveCards /\ zIndexCounter' = zIndexCounter]_vars

\* what a gesture records when it starts
GestureRecord ==
  <<dragOffset, dragStartPos, panStartRef, rotationCenterRef, lastMouseAngleRef>>

\* C19: when the second finger of a pinch lifts while a gesture is active, that
\* gesture is still active with its recorded fields unchanged; no card is
\* drawn or flipped and the state does not return to Idle.
PinchKeepsGesture ==
  [][(lastEvent'.type = "touchend" /\ Len(touches) = 2 /\ ActiveGestures = 1)
     => /\ UNCHANGED Gesture
        /\ UNCHANGED GestureRecord
        /\ UNCHANGED <<deck, placedCards, zIndexCounter>>]_vars

\* a press of the left mouse button on the body of a placed card with the
\* space bar down (the relations with the space bar use the left button only)
SpacePressOnCard ==
  /\ lastEvent'.type = "mousedown" /\ lastEvent'.target[1] = "card"
  /\ isSpacePressed

\* the press started panning and no drag, and left the cards alone
PansInsteadOfDragging ==
  /\ isPanning' /\ panStartRef' = lastEvent'.pos
  /\ isDragging' = isDragging /\ dragSource' = dragSource
  /\ draggedCardId' = draggedCardId
  /\ placedCards' = placedCards /\ zIndexCounter' = zIndexCounter

\* C20: while the space modifier is held, a left-button pointer-down on the
\* body of a placed card starts Panning and not DraggingPlacedCard: isDragging
\* stays false, and the card's stack order, position and the stack-order
\* counter are unchanged.
SpaceOnCardPans ==
  [][SpacePressOnCard => PansInsteadOfDragging]_vars

\* C20, amended: the same for a pointer-down that arrives 500 ms or more
\* after the last touch start; inside the 500 ms the pointer-down is ignored
\* and starts nothing.
SpaceOnCardPansOutsideGuard ==
  [][SpacePressOnCard
     => IF touchRecent THEN S' = S ELSE PansInsteadOfDragging]_vars

\* with the space bar down, the left button went down on a placed card and
\* panning started at the pointer, with no drag
SpacePanOverCard ==
  /\ lastEvent.type = "mousedown" /\ lastEvent.target = <<"card", 1>>
  /\ isSpacePressed /\ isPanning /\ ~isDragging /\ ~touchRecent
  /\ panStartRef = lastEvent.pos
  /\ Len(placedCards) >= 1 /\ placedCards[1].zIndex = zIndexCounter

\* C21: from Idle, a pointer-down on the open background enters Panning and
\* records the pan-start pointer position, for the left and the middle mouse
\* button, for any button with the space bar held, and for a touch start,
\* also one that begins with two fingers.  (A mouse press inside the 500 ms
\* after a touch start is left out.)
BackgroundPressPans ==
  [][(/\ lastEvent'.type \in {"mousedown", "touchstart"}
      /\ lastEvent'.target = <<"background">>
      /\ Idle
      /\ lastEvent'.type = "mousedown" => ~touchRecent)
     => isPanning' /\ panStartRef' = lastEvent'.pos]_vars

\* the screen position of the pile's centre, where the cards fly back to
PileCentreOnScreen ==
  LET cardDims == getCurrentCardDimensions(S)
  IN  Pt(QAdd(QInt(DeckMargin), Half(cardDims.width)),
         QSub(QInt(InnerHeight - DeckMargin), Half(cardDims.height)))

\* the placed card is shown centred on the pile
ShownOnPile(card) ==
  LET cardDims == getCurrentCardDimensions(S)
  IN  WorldToScreenAt(pan, zoom, QAdd(card.x, Half(cardDims.width)),
                      QAdd(card.y, Half(cardDims.height))) = PileCentreOnScreen

\* C22: while a collect with cards on the table is in flight (isReturningCards
\* set, its settle callback pending), every placed card is face-down, at
\* rotation 0, at the fly-back target and above all other cards, and no card
\* has been added to the table.
FlyBackUndisturbed ==
  (isReturningCards /\ Len(timers) = 1 /\ timers[1].kind = "settle")
    => /\ Len(placedCards) = Len(timers[1].placedCards)
       /\ \A i \in 1..Len(placedCards) :
            /\ ~placedCards[i].isFlipped
            /\ placedCards[i].rotation = 0
            /\ placedCards[i].zIndex = ReturnZIndex
            /\ ShownOnPile(placedCards[i])

\* the card at position i has a stack order above every other placed card
OnTop(cards, i) ==
  \A j \in 1..Len(cards) : j # i => cards[i].zIndex > cards[j].zIndex

\* the largest stack order on a non-empty table
MaxStackOrder(cards) ==
  CHOOSE z \in {cards[i].zIndex : i \in 1..Len(cards)} :
    \A i \in 1..Len(cards) : cards[i].zIndex <= z

\* C23: right after a card is placed from the pile, and right after a
\* pointer-down starts a drag or a rotation of a placed card, that card's
\* stack order is strictly greater than that of every other card on the
\* table; for a newly placed card it is the previous maximum plus one.
StackedOnTop ==
  [][/\ (/\ lastEvent'.type \in {"mouseup", "touchend"}
         /\ Len(placedCards') = Len(placedCards) + 1)
        => /\ OnTop(placedCards', Len(placedCards'))
           /\ Len(placedCards) > 0
                => placedCards'[Len(placedCards')].zIndex = MaxStackOrder(placedCards) + 1
     /\ (/\ lastEvent'.type \in {"mousedown", "touchstart"}
         /\ lastEvent'.target[1] \in {"card", "rotate"}
         /\ \/ ~isDragging /\ isDragging' /\ dragSource' = "TABLE"
            \/ ~isRotating /\ isRotating')
        => OnTop(placedCards', lastEvent'.target[2])]_vars

\* the world point shown at the viewport centre
CentreWorld(p, z) == ScreenToWorldAt(p, z, ViewportCenter.x, ViewportCenter.y)

\* the zoom a pinch move asks for: the current zoom plus the change of the
\* distance between the fingers times the sensitivity, clamped
PinchedZoom(before, after) ==
  LET dist == getPinchDistance(after)
  IN  IF Truthy(dist) /\ Truthy(lastPinchDistRef)
        THEN QMin(QMax(ZoomMin, QAdd(zoom, QMul(QSub(dist, lastPinchDistRef),
                                                 PinchSensitivity))), ZoomMax)
        ELSE zoom

\* C24: a move event with two touch points present is handled only as a
\* pinch, whatever the interaction state: it changes no card, does not move
\* the ghost preview and does not pan by the pointer delta; it changes only
\* the zoom, by the change of the distance between the fingers times the
\* sensitivity, clamped, and the pan so that the viewport centre stays fixed.
PinchOnly ==
  [][(lastEvent'.type = "touchmove" /\ Len(touches') = 2)
     => /\ UNCHANGED <<deck, reserveCards, placedCards, zIndexCounter, ghostPosition>>
        /\ UNCHANGED Gesture
        /\ UNCHANGED panStartRef
        /\ zoom' = PinchedZoom(touches, touches')
        /\ CentreWorld(pan', zoom') = CentreWorld(pan, zoom)]_vars

PointDiff(a, b) == Pt(QSub(a.x, b.x), QSub(a.y, b.y))
SinglePointerMove == lastEvent'.type \in {"mousemove", "touchmove"} /\ Len(touches') < 2
PanStarts == ~isPanning /\ isPanning' /\ lastEvent'.type \in {"mousedown", "touchstart"}

\* C25: the start of a pan records the pointer, and every move of the pan
\* records the pointer and adds exactly the pointer's displacement to the pan,
\* whatever the zoom: pan minus pointer is the same after the start and after
\* every move, so the pan is the pan at the start plus (pointer - pointer at
\* the start) however the movement was split
PanFollowsPointer ==
  [][/\ PanStarts => panStartRef' = lastEvent'.pos /\ pan' = pan
     /\ (isPanning /\ SinglePointerMove)
          => /\ panStartRef' = lastEvent'.pos
             /\ PointDiff(pan', lastEvent'.pos) = PointDiff(pan, panStartRef)
             /\ zoom' = zoom]_vars

\* a pan at a zoom other than 1 has followed the pointer to PFar
PannedWhileZoomed ==
  /\ isPanning /\ zoom # QInt(1) /\ viewOps >= 2
  /\ lastEvent.type \in {"mousemove", "touchmove"}
  /\ panStartRef = PFar

DraggingPlacedCard ==
  /\ isDragging /\ dragSource = "TABLE" /\ draggedCardId # NullId
  /\ ~isPanning /\ ~isRotating

\* the cards with the given instanceId (ids repeat only after a Math.random clash)
CardsWithId(cards, id) == {i \in 1..Len(cards) : cards[i].instanceId = id}

Placement(c) == [c EXCEPT !.x = QInt(0), !.y = QInt(0), !.rotation = 0]
Relocated == {i \in 1..Len(placedCards) :
                placedCards'[i].x # placedCards[i].x \/ placedCards'[i].y # placedCards[i].y}
Turned == {i \in 1..Len(placedCards) : placedCards'[i].rotation # placedCards[i].rotation}
Changed(b) == IF b THEN 1 ELSE 0

\* C27: a move of a single pointer leaves the pile, the reserve, the zoom, the
\* cards on the table and each card's face, flip state and stack order alone;
\* it changes at most one of the pan (only while panning), the rotation of the
\* rotating card alone, the position of the dragged card alone, and the ghost
\* position (only in a drag from the pile)
MoveChangesOneThing ==
  [][SinglePointerMove
       => /\ UNCHANGED <<deck, reserveCards, zoom, zIndexCounter>>
          /\ Len(placedCards') = Len(placedCards)
          /\ \A i \in 1..Len(placedCards) :
                Placement(placedCards'[i]) = Placement(placedCards[i])
          /\ Changed(pan' # pan) + Changed(Turned # {}) + Changed(Relocated # {})
               + Changed(ghostPosition' # ghostPosition) <= 1
          /\ pan' # pan => isPanning
          /\ \A i \in Turned : isRotating /\ placedCards[i].instanceId = rotatingCardId
          /\ \A i \in Relocated :
                /\ isDragging /\ dragSource = "TABLE"
                /\ placedCards[i].instanceId = draggedCardId
          /\ ghostPosition' # ghostPosition => isDragging /\ dragSource = "DECK"]_vars

\* a mouse move has just carried the dragged card to another place
CardCarriedByMove ==
  /\ lastEvent.type = "mousemove" /\ Len(touches) < 2
  /\ DraggingPlacedCard
  /\ \E i \in CardsWithId(placedCards, draggedCardId) :
        ScreenToWorldAt(pan, zoom, P15.x, P15.y)
          = Pt(QAdd(placedCards[i].x, dragOffset.x), QAdd(placedCards[i].y, dragOffset.y))

\* C28: after every move of a rotation gesture that began at rotation 0 with
\* the pointer at P15, the card's rotation is congruent modulo 360 to (the
\* angle of the pointer about the pivot - the angle of P15 about the pivot),
\* and the move changed the rotation by at most half a turn: the value is
\* carried on from turn to turn and never wrapped back into a fixed range
RotationAccumulates ==
  [][(isRotating /\ rotatingCardId # NullId /\ ~isPanning /\ SinglePointerMove)
       => LET before == RotationOf(placedCards, rotatingCardId)
              after == RotationOf(placedCards', rotatingCardId)
              current == calculateAngle(rotationCenterRef, lastEvent'.pos)
              start == calculateAngle(rotationCenterRef, P15)
          IN  /\ (after - (current - start)) % 360 = 0
              /\ Abs(after - before) <= 180]_vars

\* the pointer has gone round the pivot more than once and the rotation has
\* passed 360
TurnedMoreThanOnce ==
  /\ isRotating /\ rotatingCardId # NullId /\ lastEvent.type = "mousemove"
  /\ Abs(RotationOf(placedCards, rotatingCardId)) > 360

\* a wheel event, a press of a zoom-step button, or a move of two fingers
ZoomTrigger ==
  \/ lastEvent'.type \in {"wheel", "zoomstep"}
  \/ lastEvent'.type = "touchmove" /\ Len(touches') = 2

\* C29: a wheel event, zoom-step press or pinch move whose clamped new zoom is
\* the current zoom leaves the pan unchanged
NoOpZoomKeepsPan ==
  [][(ZoomTrigger /\ zoom' = zoom) => pan' = pan]_vars

Unflipped(c) == [c EXCEPT !.isFlipped = FALSE]
PointerUp == lastEvent'.type \in {"mouseup", "touchend"}

\* C30: a pointer-up leaves the pan, the zoom and every card that lies on the
\* table where and how the last move left it: position, rotation and stack
\* order are unchanged; the only card field it may change is the flip state of
\* the card that was pressed and is released
PointerUpKeepsPlace ==
  [][PointerUp
       => /\ UNCHANGED <<pan, zoom>>
          /\ Len(placedCards') >= Len(placedCards)
          /\ \A i \in 1..Len(placedCards) :
                /\ Unflipped(placedCards'[i]) = Unflipped(placedCards[i])
                /\ placedCards'[i].isFlipped # placedCards[i].isFlipped
                     => /\ isDragging /\ dragSource = "TABLE"
                        /\ placedCards[i].instanceId = draggedCardId]_vars

\* a rotation gesture has ended and the card keeps the turn the last move gave it
ReleasedTurned ==
  /\ lastEvent.type = "mouseup" /\ ~isRotating /\ ~isDragging /\ ~isPanning
  /\ \E i \in 1..Len(placedCards) : placedCards[i].rotation # 0

IsPermutation(a, b) ==
  /\ Len(a) = Len(b)
  /\ \A x \in Range(a) \cup Range(b) : Count(a, x) = Count(b, x)

EmptyTableCollect ==
  /\ lastEvent'.type = "collect" /\ lastEvent'.target # <<"disabled">>
  /\ placedCards = <<>>

\* C31: a collect requested with no card on the table only permutes the pile
\* and the reserve, each within itself; the table stays empty, isReturningCards
\* stays false, nothing else changes but isShufflingDeck, which is raised
\* together with a timer, and that timer's callback clears it
EmptyCollectPermutes ==
  [][/\ EmptyTableCollect
          => /\ IsPermutation(deck', deck)
             /\ IsPermutation(reserveCards', reserveCards)
             /\ placedCards' = <<>>
             /\ ~isReturningCards'
             /\ isShufflingDeck'
             /\ Len(timers') = Len(timers) + 1
             /\ timers'[Len(timers')].kind = "shuffleEnd"
             /\ UNCHANGED <<zIndexCounter, currentDeckStyle, activeFilter, pan, zoom>>
             /\ UNCHANGED Gesture
     /\ lastEvent'.type = "shuffleEnd" => ~isShufflingDeck']_vars

\* the pile of two cards has just been shuffled in place, the table empty
ShuffledInPlace ==
  /\ lastEvent.type = "collect" /\ lastEvent.target # <<"disabled">>
  /\ placedCards = <<>> /\ ~isReturningCards /\ isShufflingDeck
  /\ Len(deck) + Len(reserveCards) = NumMajor + NumMinor
  /\ Len(reserveCards) > 0

RefsKeptOrRefreshed ==
  \/ panRef' = panRef /\ zoomRef' = zoomRef
  \/ panRef' = pan' /\ zoomRef' = zoom'

ZoomFromRefs ==
  /\ \/ lastEvent'.type = "wheel"
     \/ lastEvent'.type = "touchmove" /\ Len(touches') = 2
  /\ pan' # pan \/ zoom' # zoom

ZoomsAboutRefs ==
  LET a == ZoomAnchor(lastEvent')
  IN  ScreenToWorldAt(pan', zoom', a.x, a.y) = ScreenToWorldAt(panRef, zoomRef, a.x, a.y)

\* C32: the pair (panRef, zoomRef) is at every moment a pair that (pan, zoom)
\* held together: it starts as the viewport, and a step either leaves it alone
\* or replaces both members by the viewport of that moment; and what a wheel
\* event or a pinch move makes of the viewport is the zoom about its anchor of
\* that one pair
ConsistentSnapshot ==
  /\ panRef = pan /\ zoomRef = zoom
  /\ [][RefsKeptOrRefreshed /\ (ZoomFromRefs => ZoomsAboutRefs)]_vars

\* a wheel event has zoomed from refs that a pan move had left behind
ZoomedFromOlderPair ==
  /\ lastEvent.type = "wheel" /\ viewOps = 2 /\ isPanning
  /\ zoomRef = QInt(1) /\ zoom # QInt(1)
  /\ ScreenToWorldAt(pan, zoom, lastEvent.pos.x, lastEvent.pos.y)
       = ScreenToWorldAt(panRef, zoomRef, lastEvent.pos.x, lastEvent.pos.y)

\* C33: in every state the cards on the table have pairwise distinct
\* instanceIds
DistinctInstanceIds ==
  \A i, j \in 1..Len(placedCards) :
    placedCards[i].instanceId = placedCards[j].instanceId => i = j

\* C34: whatever the random choices, the array shuffleDeck returns is a
\* permutation of its argument (same length, same elements as often), and the
\* argument is after the call what it was before
ShuffleIsPermutation ==
  [][lastEvent'.type = "shuffleDeck"
       => /\ IsPermutation(reserveCards', deck)
          /\ deck' = deck]_vars

\* an array of MaxShuffleLen cards, one of them several times, has come back
\* in another order
ShuffledWithRepeats ==
  /\ lastEvent.type = "shuffleDeck"
  /\ Len(deck) = MaxShuffleLen /\ Cardinality(Range(deck)) < Len(deck)
  /\ Cardinality(Range(deck)) > 1
  /\ reserveCards # deck

\* C35: in every state every card of the pile satisfies the active filter,
\* every card of the reserve fails it, and under ALL the reserve is empty
PileAgreesWithFilter ==
  /\ \A i \in 1..Len(deck) : Satisfies(activeFilter, deck[i])
  /\ \A i \in 1..Len(reserveCards) : ~Satisfies(activeFilter, reserveCards[i])
  /\ activeFilter = "ALL" => reserveCards = <<>>

\* under the MINOR filter a collect has settled: the pile got the minor cards,
\* the reserve the others
SettledUnderMinor ==
  /\ lastEvent.type = "settle" /\ activeFilter = "MINOR"
  /\ Len(deck) > 0 /\ Len(reserveCards) > 0

\* C36: in every state every card of the pile, the reserve and the table
\* carries the asset URLs of the selected deck style
AssetsOfCurrentStyle ==
  /\ \A i \in 1..Len(deck) : deck[i].img = currentDeckStyle
  /\ \A i \in 1..Len(reserveCards) : reserveCards[i].img = currentDeckStyle
  /\ \A i \in 1..Len(placedCards) : placedCards[i].img = currentDeckStyle

\* outside a fly-back the stack orders on the table are pairwise distinct and
\* none exceeds the counter
StackOrdersSound ==
  ~isReturningCards =>
    /\ \A i, j \in 1..Len(placedCards) :
         i # j => placedCards[i].zIndex # placedCards[j].zIndex
    /\ \A i \in 1..Len(placedCards) : placedCards[i].zIndex <= zIndexCounter

\* a step other than a reset does not lower the counter
CounterKeptOrReset == lastEvent'.type # "reset" => zIndexCounter' >= zIndexCounter

GestureTargetOnTable ==
  /\ (isDragging /\ dragSource = "TABLE")
       => CardsWithId(placedCards, draggedCardId) # {}
  /\ isRotating => CardsWithId(placedCards, rotatingCardId) # {}

\* the pile, the reserve and the filter of a state record
PileAndReserve(s) == <<s.deck, s.reserveCards, s.activeFilter>>

\* C39: setting a filter is idempotent: the same filter kind applied twice in
\* a row, as when a filter button runs both its touch-start and its click
\* handler, gives the same pile in the same order and the same reserve as
\* applying it once
FilterIdempotent ==
  \A type \in FilterTypes :
    LET once == handleFilterChange(S, type)
    IN  PileAndReserve(handleFilterChange(once, type)) = PileAndReserve(once)

\* the MAJOR filter has just split the cards between pile and reserve, no
\* animation blocks the buttons, and pressing MAJOR again changes nothing
SameFilterAgain ==
  /\ lastEvent.type = "filter" /\ lastEvent.target = <<"MAJOR">>
  /\ activeFilter = "MAJOR" /\ ~isReturningCards /\ ~isShufflingDeck
  /\ deck # <<>> /\ reserveCards # <<>>
  /\ handleFilterChange(S, "MAJOR") = S
====
